---------------------------- MODULE Spec2Model ----------------------------
(***************************************************************************)
(* The CPU Cast operator kernel                                            *)
(* (onnxruntime/core/providers/cpu/tensor/cast_op.cc).                     *)
(*                                                                         *)
(* Encoding of element values                                              *)
(*   bool and integer kinds : a TLA+ integer.  8- and 16-bit kinds hold    *)
(*       the value itself; 32- and 64-bit kinds hold the two's-complement  *)
(*       signed representative of the bit pattern, so that an unsigned     *)
(*       value u >= 2^31 is held as u - 2^w.  Tensor inputs of the wide    *)
(*       kinds are drawn below 2^31, where both readings agree.            *)
(*   floating kinds         : a record [cls, neg, mag], class cls in       *)
(*       {"nan","inf","fin"}, sign bit neg, magnitude mag in half units    *)
(*       (mag = 3 is 1.5).                                                 *)
(*   std::string            : the sequence of its bytes (ASCII codes).     *)
(***************************************************************************)
EXTENDS Integers, Sequences, FiniteSets, TLC

\* ------------------------------------------------------------------------
\* Bounds of the model
\* ------------------------------------------------------------------------
\* largest element count of an input tensor
MaxLen == 2

\* ------------------------------------------------------------------------
\* Element kinds
\* ------------------------------------------------------------------------
\* kinds listed for Input 0 of Cast
EnabledSrcTypes ==
    {"bool", "float", "double", "uint8_t", "uint16_t", "uint32_t", "uint64_t",
     "int8_t", "int16_t", "int32_t", "int64_t", "MLFloat16", "BFloat16", "string"}

\* kinds listed for Output 0 of Cast
EnabledDstTypes ==
    {"bool", "float", "double", "uint8_t", "uint16_t", "uint32_t", "uint64_t",
     "int8_t", "int16_t", "int32_t", "int64_t", "MLFloat16", "BFloat16", "string"}

\* element kinds a tensor or the "to" attribute can name that the kernel
\* does not list
OtherTypes == {"complex64", "undefined"}

ElementTypes == EnabledSrcTypes \cup EnabledDstTypes \cup OtherTypes

FloatTypes == {"float", "double", "MLFloat16", "BFloat16"}

SignedTypes == {"int8_t", "int16_t", "int32_t", "int64_t"}

UnsignedTypes == {"uint8_t", "uint16_t", "uint32_t", "uint64_t"}

IntTypes == SignedTypes \cup UnsignedTypes

\* std::is_integral holds of bool as well
IntegralTypes == IntTypes \cup {"bool"}

\* sizeof(T) * 8 for the kinds with a fixed-width scalar
Bits(t) ==
    CASE t \in {"bool", "int8_t", "uint8_t"} -> 8
      [] t \in {"int16_t", "uint16_t", "MLFloat16", "BFloat16"} -> 16
      [] t \in {"int32_t", "uint32_t", "float"} -> 32
      [] t \in {"int64_t", "uint64_t", "double", "complex64"} -> 64
      [] t = "string" -> 256
      [] OTHER -> 0

Pow2(n) == 2 ^ n

\* ------------------------------------------------------------------------
\* Numeric scalar conversions (static_cast / Eigen cast)
\* ------------------------------------------------------------------------
NaN == [cls |-> "nan", neg |-> 0, mag |-> 0]

Inf(sign) == [cls |-> "inf", neg |-> sign, mag |-> 0]

Fin(sign, magnitude) == [cls |-> "fin", neg |-> sign, mag |-> magnitude]

\* significand width (with the hidden bit) of each floating kind
Significand(t) ==
    CASE t = "MLFloat16" -> 11
      [] t = "BFloat16" -> 8
      [] t = "float" -> 24
      [] t = "double" -> 53

RECURSIVE ShiftFor(_, _, _)
\* least k with mag / 2^k < 2^p
ShiftFor(mag, p, k) ==
    IF mag \div Pow2(k) < Pow2(p) THEN k ELSE ShiftFor(mag, p, k + 1)

\* mag rounded to p significant bits, nearest, ties to even.  Every
\* magnitude of the model is below 2^31 half units, so p >= 31 is exact.
RoundNearestEven(mag, p) ==
    IF p >= 31 THEN mag
    ELSE LET k == ShiftFor(mag, p, 0)
             unit == Pow2(k)
             lo == (mag \div unit) * unit
             rem == mag - lo
         IN  IF 2 * rem < unit THEN lo
             ELSE IF 2 * rem > unit THEN lo + unit
             ELSE IF (mag \div unit) % 2 = 0 THEN lo ELSE lo + unit

\* a finite magnitude rounded into kind t; above the largest finite value
\* of t the result is an infinity.  Only MLFloat16 (max 65504) has its
\* largest finite value within the magnitudes of the model.
ToFloatType(t, sign, mag) ==
    LET r == RoundNearestEven(mag, Significand(t))
    IN  IF t = "MLFloat16" /\ r > 2 * 65504 THEN Inf(sign) ELSE Fin(sign, r)

\* float-to-float conversion of a value v of any floating kind into kind t
FloatToFloat(t, v) ==
    IF v.cls = "fin" THEN ToFloatType(t, v.neg, v.mag) ELSE v

\* integer-to-float conversion
IntToFloat(t, n) ==
    IF n < 0 THEN ToFloatType(t, 1, 2 * (-n)) ELSE ToFloatType(t, 0, 2 * n)

\* the integer part of a finite float, truncated toward zero
Trunc(v) == IF v.neg = 1 THEN -(v.mag \div 2) ELSE v.mag \div 2

\* whether the integer n is a value of integer kind t
InRange(t, n) ==
    IF Bits(t) <= 16
    THEN IF t \in SignedTypes
         THEN -Pow2(Bits(t) - 1) <= n /\ n < Pow2(Bits(t) - 1)
         ELSE 0 <= n /\ n < Pow2(Bits(t))
    ELSE t \in SignedTypes \/ n >= 0

\* integer-to-integer conversion into kind t: reduction modulo 2^Bits(t).
\* For the 32- and 64-bit kinds the stored representative is unchanged.
Wrap(t, n) ==
    IF Bits(t) <= 16
    THEN IF t \in SignedTypes
         THEN ((n + Pow2(Bits(t) - 1)) % Pow2(Bits(t))) - Pow2(Bits(t) - 1)
         ELSE n % Pow2(Bits(t))
    ELSE n

\* conversion to bool: any non-zero value is true
IntToBool(n) == IF n # 0 THEN 1 ELSE 0

FloatToBool(v) == IF v.cls = "fin" /\ v.mag = 0 THEN 0 ELSE 1

\* ------------------------------------------------------------------------
\* Element values the input tensors are drawn from
\* ------------------------------------------------------------------------
FloatCandidates ==
    {NaN, Inf(0), Inf(1),
     Fin(1, 0), Fin(0, 3), Fin(1, 600), Fin(0, 514), Fin(0, 140000)}

StringSample ==
    {<<>>, <<55>>, <<45, 55>>, <<55, 97>>, <<49, 46, 53>>, <<78, 97, 78>>}

Sample(t) ==
    CASE t = "bool" -> {0, 1}
      [] t = "int8_t" -> {-7, 0, 53, 65}
      [] t = "uint8_t" -> {0, 7, 200}
      [] t = "int16_t" -> {-7, 0, 300}
      [] t = "uint16_t" -> {0, 7, 40000}
      [] t \in {"int32_t", "int64_t"} -> {-7, 0, 70000}
      [] t \in {"uint32_t", "uint64_t"} -> {0, 7, 70000}
      [] t \in FloatTypes -> {v \in FloatCandidates : FloatToFloat(t, v) = v}
      [] t = "string" -> StringSample
      [] OTHER -> {0}

\* ------------------------------------------------------------------------
\* The scalar conversion of the generic caster, as the set of results the
\* build can produce: a singleton wherever the C++ conversion is defined.
\* A floating value whose truncation is not a value of the integer
\* destination (or a NaN or an infinity) has undefined behaviour.
\* ------------------------------------------------------------------------
UndefinedOutcomes(d) == {0, Wrap(d, -1)}

FloatToInt(d, v) ==
    IF v.cls = "fin" /\ InRange(d, Trunc(v)) THEN {Trunc(v)}
    ELSE UndefinedOutcomes(d)

ScalarCast(s, d, v) ==
    CASE s \in IntegralTypes /\ d = "bool" -> {IntToBool(v)}
      [] s \in IntegralTypes /\ d \in IntTypes -> {Wrap(d, v)}
      [] s \in IntegralTypes /\ d \in FloatTypes -> {IntToFloat(d, v)}
      [] s \in FloatTypes /\ d = "bool" -> {FloatToBool(v)}
      [] s \in FloatTypes /\ d \in IntTypes -> FloatToInt(d, v)
      [] s \in FloatTypes /\ d \in FloatTypes -> {FloatToFloat(d, v)}

\* ------------------------------------------------------------------------
\* string cast helpers: formatting
\* ------------------------------------------------------------------------
RECURSIVE Digits(_)
\* the decimal numeral of n >= 0, as bytes
Digits(n) ==
    IF n < 10 THEN <<48 + n>> ELSE Digits(n \div 10) \o <<48 + (n % 10)>>

NaNStr == <<78, 97, 78>>

InfStr == <<73, 78, 70>>

NegInfStr == <<45, 73, 78, 70>>

\* std::setprecision(8)
Precision == 8

\* operator<< of a finite floating value with precision 8, in the default
\* float notation, which is fixed notation for a decimal exponent in -4..7.
\* The integer part ip and the half h are kept when they fit in 8
\* significant digits; otherwise the half is rounded away.  Magnitudes of
\* 10^8 and above (scientific notation) are outside the model.
StreamFloat(v) ==
    LET ip == v.mag \div 2
        h == v.mag % 2
        sgn == IF v.neg = 1 THEN <<45>> ELSE <<>>
        sig == IF ip = 0 THEN 0 ELSE Len(Digits(ip))
    IN  IF h = 1 /\ sig < Precision
        THEN sgn \o Digits(ip) \o <<46, 53>>
        ELSE IF h = 1 /\ ip % 2 = 1
             THEN sgn \o Digits(ip + 1)
             ELSE sgn \o Digits(ip)

\* CastToString for a floating-point source with the sign test of the
\* infinities turned around
CastToStringFloatSwapped(input) ==
    IF input.cls = "nan" THEN NaNStr
    ELSE IF input.cls = "inf"
         THEN IF input.neg = 1 THEN InfStr ELSE NegInfStr
         ELSE StreamFloat(input)

\* CastToString for a floating-point source
CastToStringFloat(input) ==
    IF input.cls = "nan" THEN NaNStr
    ELSE IF input.cls = "inf"
         THEN IF input.neg = 1 THEN NegInfStr ELSE InfStr
         ELSE StreamFloat(input)

\* operator<< of a non-floating value: int8_t and uint8_t are character
\* types and are written as the one byte they hold; bool is written as 0
\* or 1; the other integers as a decimal numeral.
StreamIntegral(t, input) ==
    IF t \in {"int8_t", "uint8_t"} THEN <<input % 256>>
    ELSE IF input < 0 THEN <<45>> \o Digits(-input) ELSE Digits(input)

\* CastToString for a non-floating-point source
CastToStringIntegral(t, input) == StreamIntegral(t, input)

\* static_cast<float> of an MLFloat16 or a BFloat16
HalfToFloat(v) == FloatToFloat("float", v)

\* CastToString, by source kind
CastToString(t, input) ==
    CASE t \in {"float", "double"} -> CastToStringFloat(input)
      [] t \in {"MLFloat16", "BFloat16"} -> CastToStringFloat(HalfToFloat(input))
      [] t \in IntegralTypes -> CastToStringIntegral(t, input)

\* ------------------------------------------------------------------------
\* string cast helpers: parsing (std::stoll, std::stoull, std::stod)
\* ------------------------------------------------------------------------
IsSpace(ch) == ch \in {9, 10, 11, 12, 13, 32}

IsDigit(ch) == ch \in 48..57

ToLower(ch) == IF ch \in 65..90 THEN ch + 32 ELSE ch

RECURSIVE SkipSpace(_, _)
\* the first position at or after i that holds no white space
SkipSpace(str, i) ==
    IF i <= Len(str) /\ IsSpace(str[i]) THEN SkipSpace(str, i + 1) ELSE i

RECURSIVE DigitsEnd(_, _)
\* the first position at or after i that holds no digit
DigitsEnd(str, i) ==
    IF i <= Len(str) /\ IsDigit(str[i]) THEN DigitsEnd(str, i + 1) ELSE i

RECURSIVE DigitsValue(_, _, _)
\* the value of the digits at positions i..j-1
DigitsValue(str, i, j) ==
    IF j <= i THEN 0 ELSE 10 * DigitsValue(str, i, j - 1) + (str[j - 1] - 48)

\* whether str holds the bytes of word at position i, letter case ignored
HasWord(str, i, word) ==
    /\ i + Len(word) - 1 <= Len(str)
    /\ \A k \in 1..Len(word) : ToLower(str[i + k - 1]) = word[k]

\* the position after an optional sign at i
AfterSign(str, i) == IF i <= Len(str) /\ str[i] \in {43, 45} THEN i + 1 ELSE i

IsNegative(str, i) == i <= Len(str) /\ str[i] = 45

\* strtoll / strtoull in base 10: leading white space, an optional sign,
\* the longest run of digits; what follows the digits is not looked at.
\* No digits: std::invalid_argument.  A negative numeral given to
\* strtoull is negated in unsigned arithmetic, which in the stored
\* representative of a 64-bit value is the same negation.  A numeral of
\* the model has at most 9 digits, below the std::out_of_range threshold.
StrToInteger(str) ==
    LET i == SkipSpace(str, 1)
        j == AfterSign(str, i)
        k == DigitsEnd(str, j)
        mag == DigitsValue(str, j, k)
    IN  IF k = j THEN [ok |-> FALSE, v |-> 0]
        ELSE [ok |-> TRUE, v |-> IF IsNegative(str, i) THEN -mag ELSE mag]

\* the digits of a decimal fraction at positions i..j-1, to the nearest
\* half unit
FractionHalves(str, i, j) ==
    IF j <= i THEN 0
    ELSE LET scale == 10 ^ (j - i)
         IN  (4 * DigitsValue(str, i, j) + scale) \div (2 * scale)

\* strtod: leading white space, an optional sign, then "inf", "infinity"
\* or "nan" in any letter case, or digits with an optional fraction; what
\* follows is not looked at.  Nothing converted: std::invalid_argument.
\* The result is a double.  Exponents and hexadecimal floats are outside
\* the strings of the model.
StrToDouble(str) ==
    LET i == SkipSpace(str, 1)
        j == AfterSign(str, i)
        sign == IF IsNegative(str, i) THEN 1 ELSE 0
        k == DigitsEnd(str, j)
        hasDot == k <= Len(str) /\ str[k] = 46
        f == IF hasDot THEN DigitsEnd(str, k + 1) ELSE k
        fracDigits == IF hasDot THEN f - (k + 1) ELSE 0
    IN  IF HasWord(str, j, <<105, 110, 102>>) THEN [ok |-> TRUE, v |-> Inf(sign)]
        ELSE IF HasWord(str, j, <<110, 97, 110>>) THEN [ok |-> TRUE, v |-> NaN]
        ELSE IF (k - j) + fracDigits = 0 THEN [ok |-> FALSE, v |-> NaN]
        ELSE [ok |-> TRUE,
              v |-> Fin(sign, 2 * DigitsValue(str, j, k)
                              + FractionHalves(str, k + 1, f))]

\* gsl::narrow_cast<DstType> of the parsed integer
NarrowInteger(t, n) == IF t = "bool" THEN IntToBool(n) ELSE Wrap(t, n)

\* CastFromString for an integral destination (bool counts as unsigned)
CastFromStringIntegral(t, input) ==
    LET r == StrToInteger(input)
    IN  IF r.ok THEN [ok |-> TRUE, v |-> NarrowInteger(t, r.v)] ELSE r

\* CastFromString for float and double
CastFromStringFloat(t, input) ==
    LET r == StrToDouble(input)
    IN  IF r.ok THEN [ok |-> TRUE, v |-> FloatToFloat(t, r.v)] ELSE r

\* CastFromString for MLFloat16 and BFloat16: through a float intermediate.
\* The numerals of the model denote values both kinds hold exactly, so the
\* rounding of the last conversion does not show.
CastFromStringHalf(t, input) ==
    LET r == CastFromStringFloat("float", input)
    IN  IF r.ok THEN [ok |-> TRUE, v |-> FloatToFloat(t, r.v)] ELSE r

\* CastFromString, by destination kind; ok = FALSE stands for the
\* exception thrown by the parser
CastFromString(t, input) ==
    CASE t \in {"float", "double"} -> CastFromStringFloat(t, input)
      [] t \in {"MLFloat16", "BFloat16"} -> CastFromStringHalf(t, input)
      [] t \in IntegralTypes -> CastFromStringIntegral(t, input)

\* ------------------------------------------------------------------------
\* State
\* ------------------------------------------------------------------------
VARIABLES
    accel,    \* whether the build defines _M_AMD64 (the MLAS specializations)
    info,     \* the attribute "to" of the node the kernel is created for
    kernel,   \* "none", "constructed", or "failed" (the constructor threw)
    to_,      \* Cast::to_
    pc,       \* where the invocation in progress stands; "idle" when none
    X,        \* the input tensor of the last invocation: [type, shape, buf]
    Y,        \* its output tensor: [type, shape, buf]
    x0,       \* the elements of X when the invocation began
    mem,      \* the contents of the buffers "in", "out" and "tmp"
    status,   \* how the last invocation ended, "running" while in progress
    calls,    \* the routines the last invocation entered, in order
    scratch   \* the live intermediate buffers: [buf, count]

vars == <<accel, info, kernel, to_, pc, X, Y, x0, mem, status, calls, scratch>>

\* the attribute "to" is absent from the node
NoAttr == "absent"

\* the value of to_ before the constructor has stored one
Unset == "unset"

\* the content of an element that was never written
Uninit == "uninitialized"

\* shapes of the input tensors: a scalar, vectors, and matrices with a
\* zero dimension
Shapes ==
    {<<>>} \cup {<<n>> : n \in 0..MaxLen}
           \cup {<<0, n>> : n \in 0..MaxLen} \cup {<<n, 0>> : n \in 1..MaxLen}

RECURSIVE ShapeSize(_)
\* TensorShape::Size(): the product of the dimensions
ShapeSize(shape) ==
    IF shape = <<>> THEN 1 ELSE Head(shape) * ShapeSize(Tail(shape))

RECURSIVE Allocate(_)
\* a freshly allocated buffer of n elements, none of them written yet
Allocate(n) == IF n = 0 THEN <<>> ELSE Append(Allocate(n - 1), Uninit)

NoTensor == [type |-> "undefined", shape |-> <<0>>, buf |-> "none"]

NoMem == [in |-> <<>>, out |-> <<>>, tmp |-> <<>>]

Call(op, src, dst, n) == [op |-> op, src |-> src, dst |-> dst, n |-> n]

\* ------------------------------------------------------------------------
\* Tensor casters.  Each reads buffer src and writes buffer dst of the
\* memory m, element by element; src and dst may name the same buffer.
\* The result is the set of [mem, status] the call can end in.
\* ------------------------------------------------------------------------
RECURSIVE GenericLoop(_, _, _, _, _, _, _)
GenericLoop(s, d, m, src, dst, n, i) ==
    IF i > n THEN {m}
    ELSE UNION {GenericLoop(s, d, [m EXCEPT ![dst][i] = v], src, dst, n, i + 1) :
                    v \in ScalarCast(s, d, m[src][i])}

\* the zero of kind t
Zero(t) == IF t \in FloatTypes THEN Fin(0, 0) ELSE 0

RECURSIVE Zeroed(_, _)
Zeroed(t, n) == IF n = 0 THEN <<>> ELSE Append(Zeroed(t, n - 1), Zero(t))

\* a generic caster that clears the destination before it converts
TensorCasterGenericClearing(s, d, m, src, dst, n) ==
    {[mem |-> r, status |-> "OK"] :
        r \in GenericLoop(s, d, [m EXCEPT ![dst] = Zeroed(s, n)], src, dst, n, 1)}

\* generic tensor X -> Y
TensorCasterGeneric(s, d, m, src, dst, n) ==
    {[mem |-> r, status |-> "OK"] : r \in GenericLoop(s, d, m, src, dst, n, 1)}

RECURSIVE ToStringLoop(_, _, _, _, _, _)
ToStringLoop(s, m, src, dst, n, i) ==
    IF i > n THEN m
    ELSE ToStringLoop(s, [m EXCEPT ![dst][i] = CastToString(s, m[src][i])],
                      src, dst, n, i + 1)

\* tensor X -> string
TensorCasterToString(s, m, src, dst, n) ==
    {[mem |-> ToStringLoop(s, m, src, dst, n, 1), status |-> "OK"]}

RECURSIVE FromStringLoop(_, _, _, _, _, _)
FromStringLoop(d, m, src, dst, n, i) ==
    IF i > n THEN [mem |-> m, status |-> "OK"]
    ELSE LET r == CastFromString(d, m[src][i])
         IN  IF r.ok
             THEN FromStringLoop(d, [m EXCEPT ![dst][i] = r.v], src, dst, n, i + 1)
             ELSE [mem |-> m, status |-> "ParseError"]

\* tensor string -> X
TensorCasterFromString(d, m, src, dst, n) ==
    {FromStringLoop(d, m, src, dst, n, 1)}

\* a half-to-float conversion that loses the sign bit
MlasHalfToFloatUnsigned(v) == [FloatToFloat("float", v) EXCEPT !.neg = 0]

\* the conversion of one element by MlasConvertHalfToFloatBuffer
MlasHalfToFloat(v) == FloatToFloat("float", v)

RECURSIVE MlasLoop(_, _, _, _, _)
MlasLoop(m, src, dst, n, i) ==
    IF i > n THEN m
    ELSE MlasLoop([m EXCEPT ![dst][i] = MlasHalfToFloat(m[src][i])],
                  src, dst, n, i + 1)

\* tensor MLFloat16 -> float, by MlasConvertHalfToFloatBuffer
TensorCasterHalfToFloat(m, src, dst, n) ==
    {[mem |-> MlasLoop(m, src, dst, n, 1), status |-> "OK"]}

\* which definition of TensorCaster<s, d> the build selects
Specialization(build, s, d) ==
    IF build /\ s = "MLFloat16"
    THEN IF d = "float" THEN "HalfToFloat" ELSE "ThroughFloat"
    ELSE IF d = "string" THEN "ToString"
         ELSE IF s = "string" THEN "FromString" ELSE "Generic"

\* TensorCaster<s, d>::Cast for the specializations that run in one piece
RunCaster(build, s, d, m, src, dst, n) ==
    CASE Specialization(build, s, d) = "HalfToFloat" ->
             TensorCasterHalfToFloat(m, src, dst, n)
      [] Specialization(build, s, d) = "ToString" ->
             TensorCasterToString(s, m, src, dst, n)
      [] Specialization(build, s, d) = "FromString" ->
             TensorCasterFromString(d, m, src, dst, n)
      [] Specialization(build, s, d) = "Generic" ->
             TensorCasterGeneric(s, d, m, src, dst, n)

\* ------------------------------------------------------------------------
\* Dispatch
\* ------------------------------------------------------------------------
\* MLTypeCallDispatcher: the functor is invoked for each listed type equal
\* to the runtime type; the call fails unless that happened exactly once
DispatchTargets(types, dt) == {t \in types : t = dt}

DispatchFails(types, dt) == Cardinality(DispatchTargets(types, dt)) # 1

\* DstTypes with the predicate of the removal inverted: TSrc alone is kept
DstTypesKeepingSrc(TSrc) == EnabledDstTypes \cap {TSrc}

\* the destination list of SrcDispatcher<TSrc>: the enabled destination
\* types with TSrc removed
DstTypes(TSrc) == EnabledDstTypes \ {TSrc}

\* Dispatcher<TSrc, TDst> runs TensorCaster<TSrc, TDst>
Dispatcher(TSrc, TDst) == <<TSrc, TDst>>

\* SrcDispatcher<TSrc>::operator()(to, ...): the caster pairs it runs
SrcDispatcher(TSrc, to) ==
    {Dispatcher(TSrc, TDst) : TDst \in DispatchTargets(DstTypes(TSrc), to)}

\* ------------------------------------------------------------------------
\* Cast::Compute
\* ------------------------------------------------------------------------
\* the emptiness test left out
IsEmptyNever(shape) == FALSE

\* shape.Size() == 0
IsEmpty(shape) == ShapeSize(shape) = 0

\* the identity test left out
SameTypeNever(from, to) == FALSE

\* from == to_
SameType(from, to) == from = to

\* CopyCpuTensor: copies unless source and target are the same buffer
CopyCpuTensor(m, src, dst) ==
    IF src = dst THEN m ELSE [m EXCEPT ![dst] = m[src]]

Outcome(m, st, cs, p) == [mem |-> m, status |-> st, calls |-> cs, pc |-> p]

\* the call of the caster the dispatcher selected for (from, to)
InvokeCaster(build, from, to, m, src, dst, n, cs) ==
    LET cs1 == Append(cs, Call("TensorCaster", from, to, n))
    IN  IF Specialization(build, from, to) = "ThroughFloat"
        THEN {Outcome(m, "running", cs1, "through_float")}
        ELSE {Outcome(r.mem, r.status, cs1, "idle") :
                  r \in RunCaster(build, from, to, m, src, dst, n)}

\* the body of Compute on input tensor x, output tensor y and memory m
ComputeOutcomes(build, to, x, y, m) ==
    LET from == x.type
        n == ShapeSize(x.shape)
    IN  IF IsEmpty(x.shape) THEN {Outcome(m, "OK", <<>>, "idle")}
        ELSE IF SameType(from, to)
        THEN {Outcome(CopyCpuTensor(m, x.buf, y.buf), "OK",
                      <<Call("CopyCpuTensor", from, to, n)>>, "idle")}
        ELSE IF DispatchFails(EnabledSrcTypes, from)
        THEN {Outcome(m, "UnsupportedType", <<>>, "idle")}
        ELSE LET cs == <<Call("SrcDispatcher", from, to, n)>>
             IN  IF DispatchFails(DstTypes(from), to)
                 THEN {Outcome(m, "UnsupportedType", cs, "idle")}
                 ELSE UNION {InvokeCaster(build, p[1], p[2], m, x.buf, y.buf, n,
                                          Append(cs, Call("Dispatcher", p[1], p[2], n))) :
                                 p \in SrcDispatcher(from, to)}

\* whether the allocation planner may hand Compute the input buffer as the
\* output buffer: only when the two element sizes match
MayInplace(from, to) == Bits(from) = Bits(to)

\* a constructor that does not look at the status of GetAttr
ConstructUnchecked ==
    /\ kernel = "none"
    /\ kernel' = "constructed"
    /\ to_' = IF info = NoAttr THEN to_ ELSE info
    /\ UNCHANGED <<accel, info, pc, X, Y, x0, mem, status, calls, scratch>>

\* the constructor: reads the attribute "to"; throws when it is absent
Construct ==
    /\ kernel = "none"
    /\ IF info = NoAttr
       THEN kernel' = "failed" /\ to_' = to_
       ELSE kernel' = "constructed" /\ to_' = info
    /\ UNCHANGED <<accel, info, pc, X, Y, x0, mem, status, calls, scratch>>

\* one invocation of Compute, up to its return or to its entry into
\* CastMLFloat16ThroughFloat
Compute ==
    /\ kernel = "constructed"
    /\ pc = "idle"
    /\ status = "none"
    /\ \E from \in ElementTypes, shape \in Shapes, inplace \in BOOLEAN :
          \E data \in [1..ShapeSize(shape) -> Sample(from)] :
             LET x == [type |-> from, shape |-> shape, buf |-> "in"]
                 y == [type |-> to_, shape |-> shape,
                       buf |-> IF inplace THEN "in" ELSE "out"]
                 m == [in |-> data,
                       out |-> IF inplace THEN <<>>
                               ELSE Allocate(ShapeSize(shape)),
                       tmp |-> <<>>]
             IN  /\ inplace => MayInplace(from, to_)
                 /\ X' = x
                 /\ Y' = y
                 /\ x0' = data
                 /\ \E r \in ComputeOutcomes(accel, to_, x, y, m) :
                       /\ mem' = r.mem
                       /\ status' = r.status
                       /\ calls' = r.calls
                       /\ pc' = r.pc
    /\ UNCHANGED <<accel, info, kernel, to_, scratch>>

\* ------------------------------------------------------------------------
\* CastMLFloat16ThroughFloat, step by step
\* ------------------------------------------------------------------------
\* IAllocator::MakeUniquePtr<float>(allocator, shape.Size()): the live
\* buffers with the intermediate buffer of n floats added
MakeUniquePtr(live, n) == live \cup {[buf |-> "tmp", count |-> n]}

\* a scope exit that frees nothing
ScopeExitLeaking(live) == live

\* the unique_ptr going out of scope, by return or by exception: the
\* buffer it owns is freed
ScopeExit(live) == {b \in live : b.buf # "tmp"}

\* GetTempSpaceAllocator and the allocation of the intermediate buffer;
\* either can fail, and the failure is thrown out of Compute
ThroughFloatAcquire ==
    /\ pc = "through_float"
    /\ \E got \in {"ok", "no_allocator", "no_memory"} :
          IF got = "ok"
          THEN /\ scratch' = MakeUniquePtr(scratch, ShapeSize(X.shape))
               /\ mem' = [mem EXCEPT !.tmp = Allocate(ShapeSize(X.shape))]
               /\ pc' = "stage1"
               /\ status' = status
          ELSE /\ scratch' = scratch
               /\ mem' = mem
               /\ pc' = "idle"
               /\ status' = "AllocationError"
    /\ UNCHANGED <<accel, info, kernel, to_, X, Y, x0, calls>>

\* TensorCaster<MLFloat16, float>{}.Cast(context, in, intermediate_tensor, shape)
ThroughFloatStage1 ==
    /\ pc = "stage1"
    /\ \E r \in RunCaster(accel, "MLFloat16", "float", mem, X.buf, "tmp",
                          ShapeSize(X.shape)) :
          mem' = r.mem
    /\ calls' = Append(calls, Call("TensorCaster", "MLFloat16", "float",
                                   ShapeSize(X.shape)))
    /\ pc' = "stage2"
    /\ UNCHANGED <<accel, info, kernel, to_, X, Y, x0, status, scratch>>

\* TensorCaster<float, DstType>{}.Cast(context, intermediate_tensor, out, shape),
\* then the return, which frees the intermediate buffer
ThroughFloatStage2 ==
    /\ pc = "stage2"
    /\ \E r \in RunCaster(accel, "float", to_, mem, "tmp", Y.buf,
                          ShapeSize(X.shape)) :
          /\ mem' = [r.mem EXCEPT !.tmp = <<>>]
          /\ status' = r.status
    /\ calls' = Append(calls, Call("TensorCaster", "float", to_, ShapeSize(X.shape)))
    /\ scratch' = ScopeExit(scratch)
    /\ pc' = "idle"
    /\ UNCHANGED <<accel, info, kernel, to_, X, Y, x0>>

\* the OpKernelContext of a finished invocation is dropped by the caller:
\* its tensors and its result are gone, the kernel is ready for the next
Discard ==
    /\ pc = "idle"
    /\ status # "none"
    /\ X' = NoTensor
    /\ Y' = NoTensor
    /\ x0' = <<>>
    /\ mem' = NoMem
    /\ status' = "none"
    /\ calls' = <<>>
    /\ UNCHANGED <<accel, info, kernel, to_, pc, scratch>>

\* ------------------------------------------------------------------------
\* Specification
\* ------------------------------------------------------------------------
Init ==
    /\ accel \in BOOLEAN
    /\ info \in ElementTypes \cup {NoAttr}
    /\ kernel = "none"
    /\ to_ = Unset
    /\ pc = "idle"
    /\ X = NoTensor
    /\ Y = NoTensor
    /\ x0 = <<>>
    /\ mem = NoMem
    /\ status = "none"
    /\ calls = <<>>
    /\ scratch = {}

Next ==
    \/ Construct
    \/ Compute
    \/ ThroughFloatAcquire
    \/ ThroughFloatStage1
    \/ ThroughFloatStage2
    \/ Discard

Spec == Init /\ [][Next]_vars

\* ------------------------------------------------------------------------
\* The text round trip: a numeric tensor cast to text by
\* TensorCaster<K, std::string> and the text cast back by
\* TensorCaster<std::string, K>.  The text is held in buffer "tmp", the
\* tensor read back in buffer "out".
\* ------------------------------------------------------------------------
TextTypes == EnabledSrcTypes \ {"string"}

InitText ==
    /\ accel = FALSE
    /\ info = NoAttr
    /\ kernel = "none"
    /\ to_ = Unset
    /\ pc = "format"
    /\ \E K \in TextTypes, n \in 1..MaxLen :
          /\ X = [type |-> K, shape |-> <<n>>, buf |-> "in"]
          /\ x0 \in [1..n -> Sample(K)]
          /\ mem = [in |-> x0, out |-> Allocate(n), tmp |-> Allocate(n)]
    /\ Y = NoTensor
    /\ status = "none"
    /\ calls = <<>>
    /\ scratch = {}

FormatText ==
    /\ pc = "format"
    /\ \E r \in TensorCasterToString(X.type, mem, "in", "tmp", ShapeSize(X.shape)) :
          mem' = r.mem /\ status' = r.status
    /\ pc' = "parse"
    /\ UNCHANGED <<accel, info, kernel, to_, X, Y, x0, calls, scratch>>

ParseText ==
    /\ pc = "parse"
    /\ \E r \in TensorCasterFromString(X.type, mem, "tmp", "out", ShapeSize(X.shape)) :
          mem' = r.mem /\ status' = r.status
    /\ pc' = "parsed"
    /\ UNCHANGED <<accel, info, kernel, to_, X, Y, x0, calls, scratch>>

NextText == FormatText \/ ParseText

SpecText == InitText /\ [][NextText]_vars

\* ------------------------------------------------------------------------
\* Properties
\* ------------------------------------------------------------------------
\* an invocation of Compute has returned (or thrown) and is still on view
Done == pc = "idle" /\ status # "none"

\* the element count of the invocation on view
Count == ShapeSize(X.shape)

\* the calls of routine op among the calls of the invocation
CallsOf(op) == {i \in DOMAIN calls : calls[i].op = op}

\* the invocation reached the dispatcher: a non-empty tensor whose kind
\* differs from the destination kind
Dispatched == Done /\ ~IsEmpty(X.shape) /\ X.type # to_

C2_Identity ==
    (Done /\ ~IsEmpty(X.shape) /\ X.type = to_) =>
        /\ status = "OK"
        /\ mem[Y.buf] = x0
        /\ calls = <<Call("CopyCpuTensor", X.type, to_, Count)>>

C2_Witness ==
    /\ Done
    /\ X.type = "MLFloat16"
    /\ to_ = "MLFloat16"
    /\ Y.buf # X.buf
    /\ Len(x0) = 2
    /\ mem[Y.buf] = x0

\* C3 (emptiness): an invocation on a tensor of element count 0 succeeds
\* for every pair of kinds, enabled or not, with an output of the input's
\* shape and without entering the copy routine, the dispatcher or a caster;
\* and no caster is ever entered with element count 0.
C3_Emptiness ==
    /\ (Done /\ IsEmpty(X.shape)) =>
          /\ status = "OK"
          /\ Y.shape = X.shape
          /\ calls = <<>>
    /\ \A i \in CallsOf("TensorCaster") : calls[i].n > 0

C3_Witness ==
    /\ Done
    /\ X.shape = <<2, 0>>
    /\ X.type = "complex64"
    /\ to_ = "undefined"
    /\ status = "OK"

NumericTypes == IntegralTypes \cup FloatTypes

\* whether the bytes of str are a decimal numeral: an optional minus sign,
\* digits, and an optional fraction
IsDecimalNumeral(str) ==
    LET j == IF IsNegative(str, 1) THEN 2 ELSE 1
        k == DigitsEnd(str, j)
        f == IF k <= Len(str) /\ str[k] = 46 THEN DigitsEnd(str, k + 1) ELSE k
    IN  k > j /\ f = Len(str) + 1 /\ (f > k => f > k + 1)

\* C7 (special float text): a cast of a floating tensor to text writes
\* "NaN" for a NaN, "INF" for plus infinity and "-INF" for minus infinity;
\* a finite element is written as a decimal numeral and as none of the
\* three, an infinite or NaN element never as a decimal numeral.
C7_SpecialFloatText ==
    (Done /\ status = "OK" /\ X.type \in FloatTypes /\ to_ = "string") =>
        \A i \in 1..Count :
            LET v == x0[i]
                text == mem[Y.buf][i]
            IN  /\ v.cls = "nan" => text = <<78, 97, 78>>
                /\ (v.cls = "inf" /\ v.neg = 0) => text = <<73, 78, 70>>
                /\ (v.cls = "inf" /\ v.neg = 1) => text = <<45, 73, 78, 70>>
                /\ v.cls = "fin" <=> IsDecimalNumeral(text)
                /\ v.cls = "fin" =>
                      text \notin {<<78, 97, 78>>, <<73, 78, 70>>, <<45, 73, 78, 70>>}

C7_Witness ==
    /\ Done
    /\ status = "OK"
    /\ X.type = "MLFloat16"
    /\ to_ = "string"
    /\ x0 = <<Inf(1), NaN>>
    /\ mem[Y.buf] = <<<<45, 73, 78, 70>>, <<78, 97, 78>>>>

\* C8 (scoped scratch buffer): an intermediate buffer is live only inside
\* a running CastMLFloat16ThroughFloat, there is at most one, it holds as
\* many floats as the tensor has elements, and none is live once the
\* invocation has returned, normally or with an allocation error.
C8_ScopedScratch ==
    /\ pc = "idle" => scratch = {}
    /\ Cardinality(scratch) <= 1
    /\ \A b \in scratch :
          /\ b.count = Count
          /\ Len(mem[b.buf]) = Count
          /\ pc \in {"stage1", "stage2"}
          /\ accel
          /\ X.type = "MLFloat16"
          /\ to_ # "float"

C8_Witness ==
    /\ Done
    /\ status = "OK"
    /\ scratch = {}
    /\ X.type = "MLFloat16"
    /\ to_ = "string"
    /\ Count = 2
    /\ \E i \in CallsOf("TensorCaster") : calls[i] = Call("TensorCaster", "float", "string", 2)

\* C9 (configuration): a kernel exists only if the attribute "to" was
\* present, and then to_ is that attribute; without the attribute the
\* constructor fails and no invocation ever runs; every invocation writes
\* an output of kind to_; and no step changes to_ of a constructed kernel.
C9_Configuration ==
    /\ [](/\ kernel = "constructed" => (info # NoAttr /\ to_ = info)
          /\ info = NoAttr =>
                (kernel # "constructed" /\ status = "none" /\ pc = "idle" /\ calls = <<>>)
          /\ status # "none" => Y.type = to_)
    /\ [][/\ kernel = "constructed" => (kernel' = "constructed" /\ to_' = to_)
          /\ kernel = "failed" => kernel' = "failed"]_vars

C9_Witness == kernel = "failed" /\ info = NoAttr /\ status = "none"

\* the results a cast of x0 from kind s to kind d can have when the output
\* buffer is not the input buffer
SeparateResults(s, d) ==
    {r.mem.out :
        r \in TensorCasterGeneric(s, d, [in |-> x0, out |-> Allocate(Count), tmp |-> <<>>],
                                  "in", "out", Count)}

\* C10 (in place): when Compute is given the input buffer as the output
\* buffer for a pair of distinct numeric kinds, every output element is a
\* scalar conversion of the original input element at its index, and the
\* output is one a cast into a separate buffer produces.
C10_InPlace ==
    (/\ Done
     /\ status = "OK"
     /\ Y.buf = X.buf
     /\ X.type # to_
     /\ X.type \in NumericTypes
     /\ to_ \in NumericTypes
     /\ ~IsEmpty(X.shape)) =>
        /\ \A i \in 1..Count : mem[Y.buf][i] \in ScalarCast(X.type, to_, x0[i])
        /\ mem[Y.buf] \in SeparateResults(X.type, to_)

C10_Witness ==
    /\ Done
    /\ status = "OK"
    /\ Y.buf = X.buf
    /\ X.type = "int8_t"
    /\ to_ = "uint8_t"
    /\ x0 = <<-7, 53>>
    /\ mem[Y.buf] = <<249, 53>>

\* the invocation on view is a cast of a non-empty MLFloat16 tensor to
\* another enabled kind by the build with the MLAS specializations
AcceleratedHalfCast ==
    /\ Done
    /\ accel
    /\ X.type = "MLFloat16"
    /\ to_ \in EnabledDstTypes \ {"MLFloat16"}
    /\ ~IsEmpty(X.shape)

\* what the build without the MLAS specializations can return for the
\* invocation on view: TensorCaster<MLFloat16, to_> run on the same
\* buffers with the same input
GenericBuildResults ==
    RunCaster(FALSE, "MLFloat16", to_,
              [in |-> x0,
               out |-> IF Y.buf = X.buf THEN <<>> ELSE Allocate(Count),
               tmp |-> <<>>],
              X.buf, Y.buf, Count)

SameAsGenericBuild ==
    \E r \in GenericBuildResults :
        r.status = status /\ r.mem[Y.buf] = mem[Y.buf]

\* C4 as claimed (fast-path equivalence): every cast of an MLFloat16
\* tensor by the accelerated build ends as the build without the
\* accelerated routine ends on the same input: same outcome, same output.
C4_FastPathEquivalence == AcceleratedHalfCast => SameAsGenericBuild

\* C4 as amended: the accelerated build either fails with an allocation
\* error, which happens only on the two-stage path (destination other
\* than float) before any element is converted, or ends as the build
\* without the accelerated routine ends: same outcome, same output.
C4_EquivalenceUnlessAllocationFails ==
    AcceleratedHalfCast =>
        IF status = "AllocationError"
        THEN /\ to_ # "float"
             /\ Len(calls) = 3
             /\ \A r \in GenericBuildResults : r.status = "OK"
        ELSE SameAsGenericBuild

C4_Witness ==
    /\ AcceleratedHalfCast
    /\ status = "OK"
    /\ to_ = "int16_t"
    /\ Y.buf = X.buf
    /\ x0 = <<Fin(1, 600), Fin(0, 3)>>
    /\ mem[Y.buf] = <<-300, 1>>

\* whether the bytes of str are, as a whole, a numeral of kind t: an
\* optional minus sign (not for an unsigned kind), digits and, for a
\* floating kind, an optional fraction or one of the names CastToString
\* writes for the special values
WellFormedNumeral(t, str) ==
    IF t \in FloatTypes
    THEN IsDecimalNumeral(str)
             \/ str \in {<<78, 97, 78>>, <<73, 78, 70>>, <<45, 73, 78, 70>>}
    ELSE /\ IsDecimalNumeral(str)
         /\ \A i \in 1..Len(str) : str[i] # 46
         /\ t \in UnsignedTypes => ~IsNegative(str, 1)

\* C6 as claimed (parse failure): a cast of a text tensor to a numeric
\* kind fails with a parse error whenever some element is not a
\* well-formed numeral of that kind.
C6_ParseFailure ==
    (/\ Done
     /\ X.type = "string"
     /\ to_ \in NumericTypes
     /\ \E i \in 1..Count : ~WellFormedNumeral(to_, x0[i])) =>
        status = "ParseError"

\* the decimal numeral of the integer n
DecimalNumeral(n) == IF n < 0 THEN <<45>> \o Digits(-n) ELSE Digits(n)

\* C5 as claimed (round trip on text): formatting the finite elements of a
\* numeric tensor and parsing the text back succeeds and returns the
\* elements (the floating values of the model all fit in 8 significant
\* digits), and every non-floating element is written as its decimal
\* numeral.
C5_TextRoundTrip ==
    (pc = "parsed" /\ \A i \in 1..Count : X.type \in FloatTypes => x0[i].cls = "fin") =>
        /\ status = "OK"
        /\ \A i \in 1..Count :
              /\ mem.out[i] = x0[i]
              /\ X.type \notin FloatTypes => mem.tmp[i] = DecimalNumeral(x0[i])

==========================================================================
